---------------------------- MODULE Spec2Model ----------------------------
(***************************************************************************)
(* A model of TranscriptionCache (cache.py): a directory of per-key JSON   *)
(* artifact files plus one metadata index file, with time-based expiry in  *)
(* get and size-bounded, oldest-first eviction at the end of every set.    *)
(*                                                                         *)
(* Scales.  Time is counted in ticks; TicksPerSecond ticks make one second *)
(* (the code's clock has 10^6 microseconds per second) and TicksPerHour    *)
(* ticks make one hour of max_age.  Sizes are counted in bytes of the JSON *)
(* tokens written (the whitespace that indent=2 adds is not counted), and  *)
(* MB is the number of bytes of one unit of max_cache_size_mb.             *)
(***************************************************************************)
EXTENDS Integers, Sequences, FiniteSets, TLC

VARIABLES
    dir,             \* the cache directory: file name -> file content
    now,             \* the clock value read by the most recent call
    max_age,         \* self.max_age, in ticks
    max_cache_size,  \* self.max_cache_size, in bytes
    last,            \* the most recent completed call and what it returned
    script,          \* how many sets of a bounded run have been started
    written,         \* artifact file name -> the time of the latest set of it
    calls,           \* caller -> the set it is in the middle of, if any
    overlapped,      \* some set has started while another was under way
    faults           \* how many writes have failed

vars == <<dir, now, max_age, max_cache_size, last, script, written, calls,
          overlapped, faults>>

-----------------------------------------------------------------------------
(* Bounds of the model *)

NumIds == 2          \* video ids the callers use: 1..NumIds
MaxTime == 2         \* the clock runs over 0..MaxTime

(* The constructor's arguments are drawn from these sets *)
MaxAgeHoursChoices == {1}
MaxCacheSizeMbChoices == {1, 2}

(* The scripted run: ScriptLen distinct ids are set one after the other,   *)
(* with the same artifact, each set 1..MaxGap ticks after the call         *)
(* before it                                                               *)
ScriptLen == 12
MaxGap == 1

(* Writes that fail in one run *)
MaxFaults == 1

(* Sets the concurrent callers make in one run, all callers together *)
MaxSets == 2
ScriptMbChoices == {2, 10}

(* Scaled program constants *)

MB == 10             \* 1024 * 1024 bytes
TicksPerHour == 1    \* timedelta(hours=1)
TicksPerSecond == 2  \* microseconds per second in datetime.now()

Ids == 1..NumIds
Times == 0..MaxTime

-----------------------------------------------------------------------------
(* Python values: what json.load can return and what set is given *)

None == [t |-> "None", s |-> "", keys |-> <<>>, items |-> <<>>]
PyStr(x) == [t |-> "str", s |-> x, keys |-> <<>>, items |-> <<>>]
PyNum(x) == [t |-> "num", s |-> x, keys |-> <<>>, items |-> <<>>]
PyList(xs) == [t |-> "list", s |-> "", keys |-> <<>>, items |-> xs]
PyDict(ks, xs) == [t |-> "dict", s |-> "", keys |-> ks, items |-> xs]

(* The artifacts handed to set: dicts with string keys, as server.py builds *)
Artifacts ==
    { PyDict(<<>>, <<>>),
      PyDict(<<"t">>, <<PyStr("hi")>>),
      PyDict(<<"n", "s">>, <<PyNum("7"), PyList(<<PyStr("a")>>)>>) }

-----------------------------------------------------------------------------
(* json.dump: a value to the tokens written to the file *)

Punct(c) == [k |-> "punct", s |-> c]
StringTok(x) == [k |-> "string", s |-> x]

(* Mutant: a number is written as a string *)
NumberAsString(x) == [k |-> "string", s |-> x]

NumberTok(x) == [k |-> "number", s |-> x]

RECURSIVE JsonDump(_)
RECURSIVE DumpElems(_, _)
RECURSIVE DumpMembers(_, _, _)

DumpElems(xs, i) ==
    IF i > Len(xs) THEN <<>>
    ELSE (IF i > 1 THEN <<Punct(",")>> ELSE <<>>)
         \o JsonDump(xs[i]) \o DumpElems(xs, i + 1)

DumpMembers(ks, xs, i) ==
    IF i > Len(ks) THEN <<>>
    ELSE (IF i > 1 THEN <<Punct(",")>> ELSE <<>>)
         \o <<StringTok(ks[i]), Punct(":")>> \o JsonDump(xs[i])
         \o DumpMembers(ks, xs, i + 1)

JsonDump(v) ==
    CASE v.t = "str" -> <<StringTok(v.s)>>
      [] v.t = "num" -> <<NumberTok(v.s)>>
      [] v.t = "None" -> <<[k |-> "null", s |-> "null"]>>
      [] v.t = "list" -> <<Punct("[")>> \o DumpElems(v.items, 1) \o <<Punct("]")>>
      [] v.t = "dict" -> <<Punct("{")>> \o DumpMembers(v.keys, v.items, 1)
                         \o <<Punct("}")>>

(* The bytes one token takes in the file *)
TokLen(tok) == IF tok.k = "string" THEN Len(tok.s) + 2 ELSE Len(tok.s)

RECURSIVE ByteLen(_)
ByteLen(toks) == IF toks = <<>> THEN 0 ELSE TokLen(Head(toks)) + ByteLen(Tail(toks))

-----------------------------------------------------------------------------
(* json.load: the tokens of a file to a value, or JSONDecodeError *)

ParseFail == [ok |-> FALSE, val |-> None, next |-> 0]
ParseOk(v, n) == [ok |-> TRUE, val |-> v, next |-> n]

IsPunct(toks, i, c) == i <= Len(toks) /\ toks[i] = Punct(c)

(* dict[key] = value while parsing an object: a repeated key keeps its place *)
ObjPut(d, key, v) ==
    IF \E i \in 1..Len(d.keys) : d.keys[i] = key
    THEN PyDict(d.keys, [i \in 1..Len(d.items) |->
                            IF d.keys[i] = key THEN v ELSE d.items[i]])
    ELSE PyDict(Append(d.keys, key), Append(d.items, v))

RECURSIVE ParseValue(_, _)
RECURSIVE ParseElems(_, _, _)
RECURSIVE ParseMembers(_, _, _)

ParseElems(toks, i, acc) ==
    LET r == ParseValue(toks, i) IN
    IF ~r.ok THEN ParseFail
    ELSE IF IsPunct(toks, r.next, ",")
         THEN ParseElems(toks, r.next + 1, Append(acc, r.val))
    ELSE IF IsPunct(toks, r.next, "]")
         THEN ParseOk(PyList(Append(acc, r.val)), r.next + 1)
    ELSE ParseFail

ParseMembers(toks, i, acc) ==
    IF ~(i <= Len(toks) /\ toks[i].k = "string" /\ IsPunct(toks, i + 1, ":"))
    THEN ParseFail
    ELSE LET r == ParseValue(toks, i + 2) IN
         IF ~r.ok THEN ParseFail
         ELSE IF IsPunct(toks, r.next, ",")
              THEN ParseMembers(toks, r.next + 1, ObjPut(acc, toks[i].s, r.val))
         ELSE IF IsPunct(toks, r.next, "}")
              THEN ParseOk(ObjPut(acc, toks[i].s, r.val), r.next + 1)
         ELSE ParseFail

ParseValue(toks, i) ==
    IF i > Len(toks) THEN ParseFail
    ELSE CASE toks[i].k = "string" -> ParseOk(PyStr(toks[i].s), i + 1)
           [] toks[i].k = "number" -> ParseOk(PyNum(toks[i].s), i + 1)
           [] toks[i].k = "null" -> ParseOk(None, i + 1)
           [] toks[i] = Punct("[") ->
                IF IsPunct(toks, i + 1, "]") THEN ParseOk(PyList(<<>>), i + 2)
                ELSE ParseElems(toks, i + 1, <<>>)
           [] toks[i] = Punct("{") ->
                IF IsPunct(toks, i + 1, "}") THEN ParseOk(PyDict(<<>>, <<>>), i + 2)
                ELSE ParseMembers(toks, i + 1, PyDict(<<>>, <<>>))
           [] OTHER -> ParseFail

(* json.load(f): one value, then the end of the file *)
JsonLoad(toks) ==
    LET r == ParseValue(toks, 1) IN
    IF r.ok /\ r.next = Len(toks) + 1 THEN r ELSE ParseFail

-----------------------------------------------------------------------------
(* Timestamps: datetime.isoformat() and datetime.fromisoformat().  The     *)
(* string is modelled by its fields, <<seconds>> when the sub-second part  *)
(* is zero (isoformat then omits it) and <<seconds, ticks>> otherwise.     *)

IsoFormat(t) ==
    IF t % TicksPerSecond = 0 THEN <<t \div TicksPerSecond>>
    ELSE <<t \div TicksPerSecond, t % TicksPerSecond>>

FromIsoFormat(str) ==
    str[1] * TicksPerSecond + (IF Len(str) > 1 THEN str[2] ELSE 0)

(* str < str, as sorted() compares the 'timestamp' strings *)
RECURSIVE StrLess(_, _)
StrLess(a, b) ==
    IF a = <<>> THEN b # <<>>
    ELSE IF b = <<>> THEN FALSE
    ELSE IF Head(a) # Head(b) THEN Head(a) < Head(b)
    ELSE StrLess(Tail(a), Tail(b))

-----------------------------------------------------------------------------
(* Paths and files *)

(* hashlib.md5(video_id.encode()).hexdigest(): one key per id *)
GetCacheKey(video_id) == "md5_" \o ToString(video_id)

GetCachePath(video_id) == GetCacheKey(video_id) \o ".json"

MetadataFile == "cache_metadata.json"

Exists(d, path) == path \in DOMAIN d

(* open(path, 'w') and write: the whole file is replaced *)
WriteFile(d, path, content) ==
    [p \in DOMAIN d \cup {path} |-> IF p = path THEN content ELSE d[p]]

NoExc == ""
Ok(d) == [dir |-> d, exc |-> NoExc]

(* Path.unlink(): FileNotFoundError when the file is not there *)
Unlink(d, path) ==
    IF Exists(d, path) THEN Ok([p \in DOMAIN d \ {path} |-> d[p]])
    ELSE [dir |-> d, exc |-> "FileNotFoundError"]

(* Mutant: the size is counted in tokens, not in bytes *)
StatSizeInTokens(d, path) == Len(d[path])

(* Path.stat().st_size *)
StatSize(d, path) == ByteLen(d[path])

-----------------------------------------------------------------------------
(* The metadata dict: a Python dict keeps insertion order, and so does the *)
(* JSON document; it is modelled as the sequence of its items.             *)

DictHas(metadata, key) == \E i \in 1..Len(metadata) : metadata[i].key = key

DictGet(metadata, key) ==
    metadata[CHOOSE i \in 1..Len(metadata) : metadata[i].key = key]

(* Mutant: metadata = {key: entry}, the dict is replaced by the one entry *)
DictSetAlone(metadata, key, entry) == <<entry>>

(* Mutant: the entry is appended even when the key is there already *)
DictSetAppends(metadata, key, entry) == Append(metadata, entry)

(* metadata[key] = entry: an existing key keeps its position *)
DictSet(metadata, key, entry) ==
    IF DictHas(metadata, key)
    THEN [i \in 1..Len(metadata) |->
             IF metadata[i].key = key THEN entry ELSE metadata[i]]
    ELSE Append(metadata, entry)

(* del metadata[key]: KeyError when the key is not there *)
DictDel(metadata, key) ==
    IF DictHas(metadata, key)
    THEN [doc |-> SelectSeq(metadata, LAMBDA e : e.key # key), exc |-> NoExc]
    ELSE [doc |-> metadata, exc |-> "KeyError"]

Entry(key, video_id, timestamp, size) ==
    [key |-> key, video_id |-> video_id, timestamp |-> timestamp, size |-> size]

(* The metadata file holds the items json.dump wrote, and whether the      *)
(* document is closed by its final brace; a document cut short is not.     *)
MetadataDoc(metadata) == [items |-> metadata, closed |-> TRUE]

(* try: json.load(f)  except: return {} *)
LoadMetadata(d) ==
    IF Exists(d, MetadataFile) /\ d[MetadataFile].closed
    THEN d[MetadataFile].items
    ELSE <<>>

SaveMetadata(d, metadata) == WriteFile(d, MetadataFile, MetadataDoc(metadata))

RECURSIVE SumSizes(_)
SumSizes(metadata) ==
    IF metadata = <<>> THEN 0 ELSE Head(metadata).size + SumSizes(Tail(metadata))

-----------------------------------------------------------------------------
(* delete(video_id) *)

(* Mutant: the file is removed and the metadata entry is left behind *)
DeleteKeepsEntry(d, video_id) ==
    IF Exists(d, GetCachePath(video_id)) THEN Unlink(d, GetCachePath(video_id))
    ELSE Ok(d)

(* Mutant: unlink without the exists() check, del without the 'in' check *)
DeleteUnchecked(d, video_id) ==
    LET u == Unlink(d, GetCachePath(video_id))
        r == DictDel(LoadMetadata(u.dir), GetCacheKey(video_id))
    IN  IF u.exc # NoExc THEN u
        ELSE IF r.exc # NoExc THEN [dir |-> u.dir, exc |-> r.exc]
        ELSE Ok(SaveMetadata(u.dir, r.doc))

(* Mutant: delete sweeps every artifact file and resets the index *)
DeleteSweepsAll(d, video_id) ==
    Ok(SaveMetadata([p \in DOMAIN d \cap {MetadataFile} |-> d[p]], <<>>))

Delete(d, video_id) ==
    LET cache_path == GetCachePath(video_id)
        cache_key == GetCacheKey(video_id)
        u == IF Exists(d, cache_path) THEN Unlink(d, cache_path) ELSE Ok(d)
    IN  IF u.exc # NoExc THEN u
        ELSE LET metadata == LoadMetadata(u.dir) IN
             IF DictHas(metadata, cache_key)
             THEN LET r == DictDel(metadata, cache_key) IN
                  IF r.exc # NoExc THEN [dir |-> u.dir, exc |-> r.exc]
                  ELSE Ok(SaveMetadata(u.dir, r.doc))
             ELSE u

-----------------------------------------------------------------------------
(* _cleanup_if_needed() *)

(* Mutant: the items are taken in the order of the dict, unsorted *)
Unsorted(metadata, n) == SubSeq(metadata, 1, n)

(* sorted(metadata.items(), key=timestamp): stable, ascending *)
InsertSorted(sorted, e) ==
    LET later == {i \in 1..Len(sorted) : StrLess(e.timestamp, sorted[i].timestamp)}
        at == IF later = {} THEN Len(sorted) + 1
              ELSE CHOOSE i \in later : \A j \in later : i <= j
    IN  SubSeq(sorted, 1, at - 1) \o <<e>> \o SubSeq(sorted, at, Len(sorted))

RECURSIVE SortedEntries(_, _)
SortedEntries(metadata, n) ==
    IF n = 0 THEN <<>>
    ELSE InsertSorted(SortedEntries(metadata, n - 1), metadata[n])

RECURSIVE EvictLoop(_, _, _, _)

(* Mutant: the loop stops while one entry is left *)
EvictLoopKeepsLast(d, sorted_entries, total_size, removed) ==
    IF total_size > max_cache_size /\ Len(sorted_entries) > 1
    THEN LET entry == Head(sorted_entries)
             r == Delete(d, entry.video_id)
         IN  IF r.exc # NoExc
             THEN [dir |-> r.dir, exc |-> r.exc, evicted |-> removed]
             ELSE EvictLoop(r.dir, Tail(sorted_entries), total_size - entry.size,
                            Append(removed, entry))
    ELSE [dir |-> d, exc |-> NoExc, evicted |-> removed]

(* Mutant: the loop goes on while the total is at or above the budget *)
EvictLoopToBelow(d, sorted_entries, total_size, removed) ==
    IF total_size >= max_cache_size /\ sorted_entries # <<>>
    THEN LET entry == Head(sorted_entries)
             r == Delete(d, entry.video_id)
         IN  IF r.exc # NoExc
             THEN [dir |-> r.dir, exc |-> r.exc, evicted |-> removed]
             ELSE EvictLoop(r.dir, Tail(sorted_entries), total_size - entry.size,
                            Append(removed, entry))
    ELSE [dir |-> d, exc |-> NoExc, evicted |-> removed]

(* while total_size > self.max_cache_size and sorted_entries: pop, delete *)
EvictLoop(d, sorted_entries, total_size, removed) ==
    IF total_size > max_cache_size /\ sorted_entries # <<>>
    THEN LET entry == Head(sorted_entries)
             r == Delete(d, entry.video_id)
         IN  IF r.exc # NoExc
             THEN [dir |-> r.dir, exc |-> r.exc, evicted |-> removed]
             ELSE EvictLoop(r.dir, Tail(sorted_entries), total_size - entry.size,
                            Append(removed, entry))
    ELSE [dir |-> d, exc |-> NoExc, evicted |-> removed]

CleanupIfNeeded(d) ==
    LET metadata == LoadMetadata(d)
        total_size == SumSizes(metadata)
    IN  IF total_size > max_cache_size
        THEN EvictLoop(d, SortedEntries(metadata, Len(metadata)), total_size, <<>>)
        ELSE [dir |-> d, exc |-> NoExc, evicted |-> <<>>]

-----------------------------------------------------------------------------
(* set(video_id, data), with datetime.now() = t *)

SetCall(d, video_id, data, t) ==
    LET cache_path == GetCachePath(video_id)
        cache_key == GetCacheKey(video_id)
        d1 == WriteFile(d, cache_path, JsonDump(data))
        metadata == LoadMetadata(d1)
        entry == Entry(cache_key, video_id, IsoFormat(t), StatSize(d1, cache_path))
        d2 == SaveMetadata(d1, DictSet(metadata, cache_key, entry))
    IN  CleanupIfNeeded(d2)

-----------------------------------------------------------------------------
(* set(video_id, data) on a file system that fails one write: fail tells   *)
(* which write raises OSError ("artifact": the write of the artifact file, *)
(* "metadata": the write of _save_metadata) and n how far it got: -1 when  *)
(* open(path, 'w') itself raised, so that the file is as it was, else the  *)
(* number of tokens (items, for the metadata document) that reached the    *)
(* file before the write raised.  set has no try: the exception ends it.   *)

FailedWrite(d, path, content, n) ==
    IF n < 0 THEN d ELSE WriteFile(d, path, content)

(* Mutant: the exception is caught and logged, and set carries on *)
SetCallSwallows(d, video_id, data, t, fail, n) ==
    LET cache_path == GetCachePath(video_id)
        cache_key == GetCacheKey(video_id)
        content == JsonDump(data)
        d1 == IF fail = "artifact"
              THEN FailedWrite(d, cache_path, SubSeq(content, 1, n), n)
              ELSE WriteFile(d, cache_path, content)
    IN  IF ~Exists(d1, cache_path) THEN [dir |-> d1, exc |-> NoExc, evicted |-> <<>>]
        ELSE LET metadata == LoadMetadata(d1)
                 entry == Entry(cache_key, video_id, IsoFormat(t),
                                StatSize(d1, cache_path))
                 doc == DictSet(metadata, cache_key, entry)
                 d2 == IF fail = "metadata"
                       THEN FailedWrite(d1, MetadataFile,
                                [items |-> SubSeq(doc, 1, n), closed |-> FALSE], n)
                       ELSE SaveMetadata(d1, doc)
             IN  CleanupIfNeeded(d2)

SetCallFailing(d, video_id, data, t, fail, n) ==
    LET cache_path == GetCachePath(video_id)
        cache_key == GetCacheKey(video_id)
        content == JsonDump(data)
    IN  IF fail = "artifact"
        THEN [dir |-> FailedWrite(d, cache_path, SubSeq(content, 1, n), n),
              exc |-> "OSError", evicted |-> <<>>]
        ELSE LET d1 == WriteFile(d, cache_path, content)
                 metadata == LoadMetadata(d1)
                 entry == Entry(cache_key, video_id, IsoFormat(t),
                                StatSize(d1, cache_path))
                 doc == DictSet(metadata, cache_key, entry)
             IN  [dir |-> FailedWrite(d1, MetadataFile,
                              [items |-> SubSeq(doc, 1, n), closed |-> FALSE], n),
                  exc |-> "OSError", evicted |-> <<>>]

-----------------------------------------------------------------------------
(* get(video_id), with datetime.now() = t *)

(* Mutant: an entry expires already at the age max_age *)
IsExpiredAtMaxAge(timestamp, t) == t - FromIsoFormat(timestamp) >= max_age

(* datetime.now() - cached_time > self.max_age *)
IsExpired(timestamp, t) == t - FromIsoFormat(timestamp) > max_age

(* Mutant: a file that does not parse is reported absent and left in place *)
GetCallLeavesCorrupt(d, video_id, t) ==
    LET cache_path == GetCachePath(video_id)
        cache_key == GetCacheKey(video_id)
        metadata == LoadMetadata(d)
        data == JsonLoad(d[cache_path])
    IN  IF ~Exists(d, cache_path)
        THEN [dir |-> d, exc |-> NoExc, ret |-> None, outcome |-> "miss"]
        ELSE IF /\ DictHas(metadata, cache_key)
                /\ IsExpired(DictGet(metadata, cache_key).timestamp, t)
        THEN [dir |-> Delete(d, video_id).dir, exc |-> NoExc, ret |-> None,
              outcome |-> "expired"]
        ELSE IF data.ok
        THEN [dir |-> d, exc |-> NoExc, ret |-> data.val, outcome |-> "hit"]
        ELSE [dir |-> d, exc |-> NoExc, ret |-> None, outcome |-> "error"]

(* Mutant: a hit refreshes the stored timestamp of the entry *)
GetCallTouches(d, video_id, t) ==
    LET cache_path == GetCachePath(video_id)
        cache_key == GetCacheKey(video_id)
        metadata == LoadMetadata(d)
        data == JsonLoad(d[cache_path])
        touched == [DictGet(metadata, cache_key) EXCEPT !.timestamp = IsoFormat(t)]
    IN  IF ~Exists(d, cache_path)
        THEN [dir |-> d, exc |-> NoExc, ret |-> None, outcome |-> "miss"]
        ELSE IF /\ DictHas(metadata, cache_key)
                /\ IsExpired(DictGet(metadata, cache_key).timestamp, t)
        THEN [dir |-> Delete(d, video_id).dir, exc |-> NoExc, ret |-> None,
              outcome |-> "expired"]
        ELSE IF data.ok /\ DictHas(metadata, cache_key)
        THEN [dir |-> SaveMetadata(d, DictSet(metadata, cache_key, touched)),
              exc |-> NoExc, ret |-> data.val, outcome |-> "hit"]
        ELSE IF data.ok
        THEN [dir |-> d, exc |-> NoExc, ret |-> data.val, outcome |-> "hit"]
        ELSE [dir |-> Delete(d, video_id).dir, exc |-> NoExc, ret |-> None,
              outcome |-> "error"]

(* Mutant: a miss rewrites the metadata index without its first entry *)
GetCallMissDrops(d, video_id, t) ==
    LET cache_path == GetCachePath(video_id)
        cache_key == GetCacheKey(video_id)
        metadata == LoadMetadata(d)
        data == JsonLoad(d[cache_path])
    IN  IF ~Exists(d, cache_path)
        THEN [dir |-> IF metadata = <<>> THEN d
                      ELSE SaveMetadata(d, Tail(metadata)),
              exc |-> NoExc, ret |-> None, outcome |-> "miss"]
        ELSE IF /\ DictHas(metadata, cache_key)
                /\ IsExpired(DictGet(metadata, cache_key).timestamp, t)
        THEN [dir |-> Delete(d, video_id).dir, exc |-> NoExc, ret |-> None,
              outcome |-> "expired"]
        ELSE IF data.ok
        THEN [dir |-> d, exc |-> NoExc, ret |-> data.val, outcome |-> "hit"]
        ELSE [dir |-> Delete(d, video_id).dir, exc |-> NoExc, ret |-> None,
              outcome |-> "error"]

GetCall(d, video_id, t) ==
    LET cache_path == GetCachePath(video_id)
        cache_key == GetCacheKey(video_id)
    IN  IF ~Exists(d, cache_path)
        THEN [dir |-> d, exc |-> NoExc, ret |-> None, outcome |-> "miss"]
        ELSE LET metadata == LoadMetadata(d)
                 expired ==
                     /\ DictHas(metadata, cache_key)
                     /\ IsExpired(DictGet(metadata, cache_key).timestamp, t)
             IN  IF expired
                 THEN LET r == Delete(d, video_id) IN
                      [dir |-> r.dir, exc |-> r.exc, ret |-> None,
                       outcome |-> "expired"]
                 ELSE LET data == JsonLoad(d[cache_path]) IN
                      IF data.ok
                      THEN [dir |-> d, exc |-> NoExc, ret |-> data.val,
                            outcome |-> "hit"]
                      ELSE LET r == Delete(d, video_id) IN
                           [dir |-> r.dir, exc |-> r.exc, ret |-> None,
                            outcome |-> "error"]

-----------------------------------------------------------------------------
(* clear() *)

(* self.cache_dir.glob("*.json"): every file of the directory ends in .json *)
Glob(d) == DOMAIN d

(* Mutant: the files are swept and the metadata index is not reset *)
ClearKeepsMetadata(d) ==
    Ok([p \in DOMAIN d \ {q \in Glob(d) : q # MetadataFile} |-> d[p]])

ClearCall(d) ==
    LET swept == {p \in Glob(d) : p # MetadataFile}
        d1 == [p \in DOMAIN d \ swept |-> d[p]]
    IN  Ok(SaveMetadata(d1, <<>>))

-----------------------------------------------------------------------------
(* get_stats(): total_size_mb is round(total / MB, 2), kept in hundredths *)

(* Mutant: the count is taken over the files of the directory *)
GetStatsCountsFiles(d) ==
    LET metadata == LoadMetadata(d)
        total_size == SumSizes(metadata)
    IN  [total_videos |-> Cardinality(DOMAIN d),
         total_size_mb_x100 |-> (total_size * 200 + MB) \div (2 * MB),
         max_size_mb |-> max_cache_size \div MB,
         max_age_hours |-> max_age \div TicksPerHour]

GetStats(d) ==
    LET metadata == LoadMetadata(d)
        total_size == SumSizes(metadata)
    IN  [total_videos |-> Len(metadata),
         total_size_mb_x100 |-> (total_size * 200 + MB) \div (2 * MB),
         max_size_mb |-> max_cache_size \div MB,
         max_age_hours |-> max_age \div TicksPerHour]

-----------------------------------------------------------------------------
(* The calls.  Every call is made at a clock value t that is not before    *)
(* the one of the call before it; set and get read it as datetime.now().   *)
(* (A call's result r is bound by \E over a singleton so that it is        *)
(* computed once.)  last records the call and its outcome:                 *)
(*   op, id, data   the call and its arguments (data: the artifact of set) *)
(*   ret, exc       what it returned, and the exception it ended with      *)
(*   outcome        the branch taken, as logged: for get "miss", "expired",*)
(*                  "hit" or "error"; for delete and clear whether         *)
(*                  anything was removed                                   *)
(*   evicted        the entries _cleanup_if_needed removed, in order       *)
(*   after_set      the call before this one was a set of the same id      *)

Call(op, id, data, ret, exc, outcome, evicted) ==
    [op |-> op, id |-> id, data |-> data, ret |-> ret, exc |-> exc,
     outcome |-> outcome, evicted |-> evicted,
     after_set |-> (last.op = "set" /\ last.id = id)]

(* The callers of one cache directory, and a caller that is in no call *)
Callers == {1, 2}

Idle == [pc |-> "idle", id |-> 0, data |-> None, metadata |-> <<>>]

(* The latest set of every artifact file that is in directory d2; path was *)
(* written at time t by the call                                           *)
Keep(d2) == [p \in DOMAIN written \cap DOMAIN d2 |-> written[p]]

Stamp(d2, path, t) ==
    IF Exists(d2, path) THEN (path :> t) @@ Keep(d2) ELSE Keep(d2)

Init ==
    /\ dir = SaveMetadata(<<>>, <<>>)
    /\ now = 0
    /\ max_age \in {h * TicksPerHour : h \in MaxAgeHoursChoices}
    /\ max_cache_size \in {mb * MB : mb \in MaxCacheSizeMbChoices}
    /\ last = [op |-> "init", id |-> 0, data |-> None, ret |-> None,
               exc |-> NoExc, outcome |-> "", evicted |-> <<>>,
               after_set |-> FALSE]
    /\ script = 0
    /\ written = <<>>
    /\ calls = [p \in Callers |-> Idle]
    /\ overlapped = FALSE
    /\ faults = 0

SetAt(id, data, t) ==
    \E r \in {SetCall(dir, id, data, t)} :
    /\ dir' = r.dir
    /\ now' = t
    /\ last' = Call("set", id, data, None, r.exc, "", r.evicted)
    /\ written' = Stamp(r.dir, GetCachePath(id), t)
    /\ UNCHANGED <<max_age, max_cache_size, calls, overlapped, faults>>

Set ==
    \E id \in Ids, data \in Artifacts, t \in now..MaxTime :
        SetAt(id, data, t) /\ UNCHANGED script

Get ==
    \E id \in Ids, t \in now..MaxTime :
        \E r \in {GetCall(dir, id, t)} :
        /\ dir' = r.dir
        /\ now' = t
        /\ last' = Call("get", id, None, r.ret, r.exc, r.outcome, <<>>)
        /\ written' = Keep(r.dir)
        /\ UNCHANGED <<max_age, max_cache_size, script, calls, overlapped, faults>>

DeleteOp ==
    \E id \in Ids, t \in now..MaxTime :
        \E r \in {Delete(dir, id)} :
        /\ dir' = r.dir
        /\ now' = t
        /\ last' = Call("delete", id, None, None, r.exc,
                        IF r.dir = dir THEN "nothing" ELSE "removed", <<>>)
        /\ written' = Keep(r.dir)
        /\ UNCHANGED <<max_age, max_cache_size, script, calls, overlapped, faults>>

Clear ==
    \E t \in now..MaxTime :
        \E r \in {ClearCall(dir)} :
        /\ dir' = r.dir
        /\ now' = t
        /\ last' = Call("clear", 0, None, None, r.exc,
                        IF r.dir = dir THEN "nothing" ELSE "removed", <<>>)
        /\ written' = Keep(r.dir)
        /\ UNCHANGED <<max_age, max_cache_size, script, calls, overlapped, faults>>

Stats ==
    \E t \in now..MaxTime :
        /\ now' = t
        /\ last' = Call("get_stats", 0, None, GetStats(dir), NoExc, "", <<>>)
        /\ UNCHANGED <<dir, max_age, max_cache_size, script, written, calls,
                       overlapped, faults>>

Next == Set \/ Get \/ DeleteOp \/ Clear \/ Stats

Spec == Init /\ [][Next]_vars

-----------------------------------------------------------------------------
(* The cache with artifact files damaged from outside: an intact artifact  *)
(* file is cut short (emptied, cut in the middle, or cut before its last   *)
(* token).  The metadata file is left alone.                               *)

CutPoints(content) == {0, Len(content) \div 2, Len(content) - 1}

Corrupt ==
    \E id \in Ids :
        LET cache_path == GetCachePath(id) IN
        /\ Exists(dir, cache_path)
        /\ JsonLoad(dir[cache_path]).ok
        /\ \E n \in CutPoints(dir[cache_path]) :
              dir' = WriteFile(dir, cache_path, SubSeq(dir[cache_path], 1, n))
        /\ last' = Call("corrupt", id, None, None, NoExc, "", <<>>)
        /\ UNCHANGED <<now, max_age, max_cache_size, script, written, calls,
                       overlapped, faults>>

NextTamper == Next \/ Corrupt

SpecTamper == Init /\ [][NextTamper]_vars

-----------------------------------------------------------------------------
(* The cache with artifact files removed from outside: something other     *)
(* than the cache unlinks an artifact file and leaves the metadata file    *)
(* alone.                                                                  *)

RemoveArtifact ==
    \E id \in Ids :
        /\ Exists(dir, GetCachePath(id))
        /\ dir' = Unlink(dir, GetCachePath(id)).dir
        /\ written' = Keep(dir')
        /\ last' = Call("remove_artifact", id, None, None, NoExc, "", <<>>)
        /\ UNCHANGED <<now, max_age, max_cache_size, script, calls, overlapped,
                       faults>>

NextRemoved == Next \/ RemoveArtifact

SpecRemoved == Init /\ [][NextRemoved]_vars

-----------------------------------------------------------------------------
(* The cache with the metadata file lost or damaged from outside: the file *)
(* is removed, or a closed document is cut short (emptied, or cut before   *)
(* its final brace) so that json.load fails on it.  The artifact files are *)
(* left alone.                                                             *)

Unreadable(d) == ~Exists(d, MetadataFile) \/ ~d[MetadataFile].closed

RemoveMetadata ==
    /\ Exists(dir, MetadataFile)
    /\ dir' = Unlink(dir, MetadataFile).dir
    /\ last' = Call("remove_metadata", 0, None, None, NoExc, "", <<>>)
    /\ UNCHANGED <<now, max_age, max_cache_size, script, written, calls,
                   overlapped, faults>>

DamageMetadata ==
    /\ ~Unreadable(dir)
    /\ \E n \in {0, Len(dir[MetadataFile].items)} :
          dir' = WriteFile(dir, MetadataFile,
                           [items |-> SubSeq(dir[MetadataFile].items, 1, n),
                            closed |-> FALSE])
    /\ last' = Call("damage_metadata", 0, None, None, NoExc, "", <<>>)
    /\ UNCHANGED <<now, max_age, max_cache_size, script, written, calls,
                   overlapped, faults>>

NextMetaLost == Next \/ RemoveMetadata \/ DamageMetadata

SpecMetaLost == Init /\ [][NextMetaLost]_vars

-----------------------------------------------------------------------------
(* The cache on a file system whose writes can fail (disk full, permission *)
(* denied): a set in which one of the two writes raises, at most MaxFaults *)
(* times in a run.  WriteStops are the places a failing write of len       *)
(* tokens or items can stop at.                                            *)

WriteStops(len) == {-1, 0, len \div 2}

(* A file that this call created keeps the time of the call *)
StampNew(d2, path, t) ==
    Keep(d2) @@ (IF Exists(d2, path) THEN (path :> t) ELSE <<>>)

SetFails ==
    \E id \in Ids, data \in Artifacts, t \in now..MaxTime,
       fail \in {"artifact", "metadata"} :
        \E n \in WriteStops(IF fail = "artifact" THEN Len(JsonDump(data))
                             ELSE Len(LoadMetadata(dir)) + 1) :
        \E r \in {SetCallFailing(dir, id, data, t, fail, n)} :
        /\ faults < MaxFaults
        /\ dir' = r.dir
        /\ now' = t
        /\ last' = Call("set", id, data, None, r.exc, fail, r.evicted)
        /\ written' = IF fail = "metadata"
                      THEN Stamp(r.dir, GetCachePath(id), t)
                      ELSE StampNew(r.dir, GetCachePath(id), t)
        /\ faults' = faults + 1
        /\ UNCHANGED <<max_age, max_cache_size, script, calls, overlapped>>

NextFault == Next \/ SetFails

SpecFault == Init /\ [][NextFault]_vars

-----------------------------------------------------------------------------
(* Two callers on one cache directory, without coordination.  A set is     *)
(* taken in the steps at which it touches the directory: it writes the     *)
(* artifact file (88-89), loads the metadata (92), saves the metadata with *)
(* its entry (93-98) and runs _cleanup_if_needed (103); the steps of the   *)
(* two callers interleave in any order.  calls[p] holds the step caller p  *)
(* is at, the arguments of its set and the metadata dict it has loaded.    *)
(* (_cleanup_if_needed is taken as one step.)  The callers make at most    *)
(* MaxSets sets between them; script counts the sets started.              *)

AllIdle == \A p \in Callers : calls[p].pc = "idle"

RaceWrite(p) ==
    \E id \in Ids, data \in Artifacts :
        /\ calls[p].pc = "idle"
        /\ script < MaxSets
        /\ script' = script + 1
        /\ dir' = WriteFile(dir, GetCachePath(id), JsonDump(data))
        /\ calls' = [calls EXCEPT ![p] = [pc |-> "load", id |-> id,
                                          data |-> data, metadata |-> <<>>]]
        /\ overlapped' = (overlapped \/ ~AllIdle)
        /\ written' = Stamp(dir', GetCachePath(id), now)
        /\ UNCHANGED <<now, max_age, max_cache_size, last, faults>>

RaceLoad(p) ==
    /\ calls[p].pc = "load"
    /\ calls' = [calls EXCEPT ![p].pc = "save",
                              ![p].metadata = LoadMetadata(dir)]
    /\ UNCHANGED <<dir, now, max_age, max_cache_size, last, script, written,
                   overlapped, faults>>

(* cache_path.stat() raises FileNotFoundError when the eviction run of the *)
(* other caller has removed the file in the meantime: the set ends there   *)
RaceSave(p) ==
    \E t \in now..MaxTime :
        LET video_id == calls[p].id
            cache_path == GetCachePath(video_id)
            cache_key == GetCacheKey(video_id)
        IN  /\ calls[p].pc = "save"
            /\ now' = t
            /\ IF Exists(dir, cache_path)
               THEN /\ dir' = SaveMetadata(dir,
                                  DictSet(calls[p].metadata, cache_key,
                                          Entry(cache_key, video_id, IsoFormat(t),
                                                StatSize(dir, cache_path))))
                    /\ calls' = [calls EXCEPT ![p].pc = "cleanup"]
                    /\ written' = Stamp(dir', cache_path, t)
                    /\ UNCHANGED last
               ELSE /\ calls' = [calls EXCEPT ![p] = Idle]
                    /\ last' = Call("set", video_id, calls[p].data, None,
                                    "FileNotFoundError", "", <<>>)
                    /\ UNCHANGED <<dir, written>>
            /\ UNCHANGED <<max_age, max_cache_size, script, overlapped, faults>>

RaceCleanup(p) ==
    \E r \in {CleanupIfNeeded(dir)} :
        /\ calls[p].pc = "cleanup"
        /\ dir' = r.dir
        /\ calls' = [calls EXCEPT ![p] = Idle]
        /\ last' = Call("set", calls[p].id, calls[p].data, None, r.exc, "",
                        r.evicted)
        /\ written' = Keep(r.dir)
        /\ UNCHANGED <<now, max_age, max_cache_size, script, overlapped, faults>>

NextRace ==
    \E p \in Callers : RaceWrite(p) \/ RaceLoad(p) \/ RaceSave(p) \/ RaceCleanup(p)

SpecRace == Init /\ [][NextRace]_vars

-----------------------------------------------------------------------------
(* The scripted run of sets.  Before it starts the caller may set any of   *)
(* the ids Ids (so that ids of the run can be cached already, in an order  *)
(* of the metadata dict that differs from the order of their timestamps);  *)
(* once it has started, nothing else is called.                            *)

InitScript ==
    /\ dir = SaveMetadata(<<>>, <<>>)
    /\ now = 0
    /\ max_age \in {h * TicksPerHour : h \in MaxAgeHoursChoices}
    /\ max_cache_size \in {mb * MB : mb \in ScriptMbChoices}
    /\ last = [op |-> "init", id |-> 0, data |-> None, ret |-> None,
               exc |-> NoExc, outcome |-> "", evicted |-> <<>>,
               after_set |-> FALSE]
    /\ script = 0
    /\ written = <<>>
    /\ calls = [p \in Callers |-> Idle]
    /\ overlapped = FALSE
    /\ faults = 0

Prelude == script = 0 /\ Set

ScriptSet ==
    \E data \in Artifacts, gap \in 1..MaxGap :
        /\ script < ScriptLen
        /\ script > 0 => data = last.data
        /\ SetAt(script + 1, data, now + gap)
        /\ script' = script + 1

NextScript == Prelude \/ ScriptSet

SpecScript == InitScript /\ [][NextScript]_vars

-----------------------------------------------------------------------------
(* What the claims speak of *)

Metadata == LoadMetadata(dir)

ArtifactFiles == DOMAIN dir \ {MetadataFile}

HasEntry(d, id) == DictHas(LoadMetadata(d), GetCacheKey(id))

HasFile(d, id) == Exists(d, GetCachePath(id))

RECURSIVE SumFileSizes(_, _)
SumFileSizes(d, paths) ==
    IF paths = {} THEN 0
    ELSE LET p == CHOOSE q \in paths : TRUE IN
         ByteLen(d[p]) + SumFileSizes(d, paths \ {p})

-----------------------------------------------------------------------------
(* C1.  Lock-step: whenever a set, get, delete or clear has completed, the *)
(* metadata index has an entry for a cache key if and only if the artifact *)
(* file of that key exists in the cache directory (and the index holds one *)
(* entry per key, under the key of the entry's video id).                  *)

LockStep ==
    /\ {GetCachePath(Metadata[i].video_id) : i \in 1..Len(Metadata)} = ArtifactFiles
    /\ \A i \in 1..Len(Metadata) :
          /\ Metadata[i].key = GetCacheKey(Metadata[i].video_id)
          /\ \A j \in 1..Len(Metadata) : Metadata[j].key = Metadata[i].key => j = i

(* A get has just removed an expired entry while another entry stays *)
LockStepWitness ==
    /\ last.op = "get" /\ last.outcome = "expired"
    /\ ~HasFile(dir, last.id) /\ ~HasEntry(dir, last.id)
    /\ Len(Metadata) >= 1

-----------------------------------------------------------------------------
(* C2.  Size accounting: whenever a call has completed, every entry's      *)
(* 'size' is the size of the artifact file of its key, and the sum of the  *)
(* 'size' fields equals the sum of the sizes of the artifact files.        *)

SizeAccounting ==
    /\ \A i \in 1..Len(Metadata) :
          /\ HasFile(dir, Metadata[i].video_id)
          /\ Metadata[i].size = ByteLen(dir[GetCachePath(Metadata[i].video_id)])
    /\ SumSizes(Metadata) = SumFileSizes(dir, ArtifactFiles)

(* An id was set twice in a row and two entries of different sizes remain *)
SizeAccountingWitness ==
    /\ last.op = "set" /\ last.after_set
    /\ Len(Metadata) = 2
    /\ Metadata[1].size # Metadata[2].size

-----------------------------------------------------------------------------
(* C3.  Size budget: when a set has returned, the recorded sizes of the    *)
(* remaining entries sum to at most max_cache_size, or no entry remains.   *)

SizeBudget ==
    last.op = "set" => (SumSizes(Metadata) <= max_cache_size \/ Metadata = <<>>)

(* A set of an artifact larger than the budget has emptied the cache *)
SizeBudgetWitness ==
    /\ last.op = "set"
    /\ ByteLen(JsonDump(last.data)) > max_cache_size
    /\ Len(last.evicted) >= 2
    /\ Metadata = <<>>

-----------------------------------------------------------------------------
(* C4.  Oldest first: whenever the eviction run of a set removes entries,  *)
(* every removed entry has a stored time less than or equal to the stored  *)
(* time of every entry that survives; and once at least 12 distinct ids of *)
(* equal size have been set one after the other at strictly increasing     *)
(* times, with a budget of 10 such artifacts, the first id set is absent   *)
(* and the id set last is present.                                         *)

OldestFirst ==
    /\ \A i \in 1..Len(last.evicted), j \in 1..Len(Metadata) :
          FromIsoFormat(last.evicted[i].timestamp)
              <= FromIsoFormat(Metadata[j].timestamp)
    /\ (script >= 12 /\ max_cache_size \div ByteLen(JsonDump(last.data)) = 10)
          => /\ ~HasFile(dir, 1) /\ ~HasEntry(dir, 1)
             /\ HasFile(dir, script) /\ HasEntry(dir, script)

(* The twelfth set of the run has evicted an entry and ten entries remain *)
OldestFirstWitness ==
    /\ script = 12
    /\ max_cache_size \div ByteLen(JsonDump(last.data)) = 10
    /\ Len(last.evicted) = 1
    /\ Len(Metadata) = 10

-----------------------------------------------------------------------------
(* C5.  Newest entry survives: when set(id, a) has returned and the        *)
(* artifact written is by itself no larger than max_cache_size, the entry  *)
(* and the file of id are present.                                         *)

NewestSurvives ==
    (last.op = "set" /\ ByteLen(JsonDump(last.data)) <= max_cache_size)
        => (HasEntry(dir, last.id) /\ HasFile(dir, last.id))

-----------------------------------------------------------------------------
(* C6.  Round trip: a get(id) that directly follows set(id, a) returns a   *)
(* value equal to a, provided the entry was not evicted by that set and    *)
(* has not expired at the get; and a get or a delete of one id does not    *)
(* change what a get of any other id returns, at any later time.           *)

RoundTrip ==
    [][ /\ ( /\ last.op = "set" /\ last'.op = "get" /\ last'.id = last.id
             /\ HasEntry(dir, last.id)
             /\ now' - FromIsoFormat(
                    DictGet(Metadata, GetCacheKey(last.id)).timestamp) <= max_age )
           => last'.ret = last.data
        /\ last'.op \in {"get", "delete"}
           => \A id \in Ids \ {last'.id}, t \in now'..MaxTime :
                 GetCall(dir', id, t).ret = GetCall(dir, id, t).ret
      ]_vars

(* A get directly after the set of the nested artifact has returned it *)
RoundTripWitness ==
    /\ last.op = "get" /\ last.after_set /\ last.outcome = "hit"
    /\ last.ret = PyDict(<<"n", "s">>, <<PyNum("7"), PyList(<<PyStr("a")>>)>>)

-----------------------------------------------------------------------------
(* C7.  Expiry: for an entry stored at t0 whose artifact file is there,    *)
(* get(id) at time t returns None and removes the file and the entry       *)
(* exactly when t - t0 > max_age; when t - t0 <= max_age it returns the    *)
(* stored artifact and changes nothing.                                    *)

Expiry ==
    [][ (last'.op = "get" /\ HasEntry(dir, last'.id) /\ HasFile(dir, last'.id))
        => LET t0 == FromIsoFormat(
                        DictGet(Metadata, GetCacheKey(last'.id)).timestamp)
           IN  IF now' - t0 > max_age
               THEN /\ last'.ret = None
                    /\ ~HasFile(dir', last'.id)
                    /\ ~HasEntry(dir', last'.id)
               ELSE /\ last'.ret \in Artifacts
                    /\ JsonDump(last'.ret) = dir[GetCachePath(last'.id)]
                    /\ dir' = dir
      ]_vars

(* A get has returned the entry at exactly the age max_age *)
ExpiryWitness ==
    /\ last.op = "get" /\ last.outcome = "hit"
    /\ HasEntry(dir, last.id)
    /\ now - FromIsoFormat(DictGet(Metadata, GetCacheKey(last.id)).timestamp)
         = max_age

-----------------------------------------------------------------------------
(* C8.  Idempotent delete: delete(id) never raises; after it neither the   *)
(* artifact file nor the metadata entry of id exists; and when neither     *)
(* existed before, the directory is exactly as it was.                     *)

IdempotentDelete ==
    [][ last'.op = "delete"
        => /\ last'.exc = NoExc
           /\ ~HasFile(dir', last'.id)
           /\ ~HasEntry(dir', last'.id)
           /\ (~HasFile(dir, last'.id) /\ ~HasEntry(dir, last'.id)) => dir' = dir
      ]_vars

(* A delete of an id that is not cached, with another entry in the cache *)
IdempotentDeleteWitness ==
    /\ last.op = "delete" /\ last.outcome = "nothing" /\ last.exc = NoExc
    /\ Len(Metadata) >= 1

-----------------------------------------------------------------------------
(* C9.  Clear wipes all: when clear has returned, the metadata index is    *)
(* empty, get_stats reports no entry and no size, no artifact file is in   *)
(* the directory, the metadata file exists, and a get of any id returns    *)
(* None.                                                                   *)

ClearWipesAll ==
    last.op = "clear"
        => /\ Metadata = <<>>
           /\ GetStats(dir).total_videos = 0
           /\ GetStats(dir).total_size_mb_x100 = 0
           /\ ArtifactFiles = {}
           /\ Exists(dir, MetadataFile)
           /\ \A id \in Ids, t \in now..MaxTime : GetCall(dir, id, t).ret = None

(* A clear that removed something *)
ClearWipesAllWitness ==
    /\ last.op = "clear" /\ last.outcome = "removed"
    /\ DOMAIN dir = {MetadataFile}

-----------------------------------------------------------------------------
(* C10.  Corruption self-heals: when the artifact file of a cached,        *)
(* unexpired id does not parse, get(id) does not raise, returns None and   *)
(* removes the file and the entry, so that get_stats counts one entry      *)
(* less; the files and entries of the other ids stay as they were.         *)

SelfHeals ==
    [][ ( /\ last'.op = "get"
          /\ HasEntry(dir, last'.id) /\ HasFile(dir, last'.id)
          /\ ~JsonLoad(dir[GetCachePath(last'.id)]).ok
          /\ ~IsExpired(DictGet(Metadata, GetCacheKey(last'.id)).timestamp, now') )
        => /\ last'.exc = NoExc
           /\ last'.ret = None
           /\ ~HasFile(dir', last'.id)
           /\ ~HasEntry(dir', last'.id)
           /\ GetStats(dir').total_videos = GetStats(dir).total_videos - 1
           /\ \A id \in Ids \ {last'.id} :
                 /\ HasFile(dir', id) = HasFile(dir, id)
                 /\ HasFile(dir, id)
                      => dir'[GetCachePath(id)] = dir[GetCachePath(id)]
                 /\ HasEntry(dir', id) = HasEntry(dir, id)
                 /\ HasEntry(dir, id)
                      => DictGet(LoadMetadata(dir'), GetCacheKey(id))
                           = DictGet(Metadata, GetCacheKey(id))
      ]_vars

(* A get has met an unparseable file and another entry is still cached *)
SelfHealsWitness ==
    /\ last.op = "get" /\ last.outcome = "error" /\ last.ret = None
    /\ ~HasFile(dir, last.id) /\ ~HasEntry(dir, last.id)
    /\ Len(Metadata) >= 1

-----------------------------------------------------------------------------
(* C11.  A clean hit writes nothing: when get(id) returns an artifact, it  *)
(* does not raise and the directory (every artifact file and the whole     *)
(* metadata index, the stored timestamp of id included) is exactly as it   *)
(* was, so neither the expiry of the entry nor its place in the eviction   *)
(* order moves.                                                            *)

CleanHit ==
    [][ (last'.op = "get" /\ last'.ret # None)
        => /\ last'.exc = NoExc
           /\ dir' = dir
           /\ SortedEntries(LoadMetadata(dir'), Len(LoadMetadata(dir')))
                = SortedEntries(Metadata, Len(Metadata))
      ]_vars

(* A hit, some time after the set, of the entry that is first of two *)
CleanHitWitness ==
    /\ last.op = "get" /\ last.outcome = "hit" /\ last.ret \in Artifacts
    /\ Len(Metadata) = 2
    /\ Metadata[1].video_id = last.id
    /\ now > FromIsoFormat(Metadata[1].timestamp)

-----------------------------------------------------------------------------
(* C12.  Miss on absent: get(id) of an id that has no artifact file (it    *)
(* was never set, or was removed by delete, clear, expiry or eviction and  *)
(* not set again) returns None, does not raise, and leaves the directory   *)
(* exactly as it was.                                                      *)

MissOnAbsent ==
    [][ (last'.op = "get" /\ ~HasFile(dir, last'.id))
        => /\ last'.ret = None
           /\ last'.exc = NoExc
           /\ dir' = dir
      ]_vars

(* A miss while another id is cached *)
MissOnAbsentWitness ==
    /\ last.op = "get" /\ last.outcome = "miss" /\ last.ret = None
    /\ ~HasFile(dir, last.id) /\ ~HasEntry(dir, last.id)
    /\ Len(Metadata) >= 1

-----------------------------------------------------------------------------
(* C13.  get_stats is read-only: it leaves the directory as it was, and    *)
(* the count it reports is the number of entries of the metadata index,    *)
(* which is the number of artifact files a get would find.                 *)

StatsReadOnly ==
    [][ last'.op = "get_stats"
        => /\ dir' = dir
           /\ last'.ret.total_videos = Len(Metadata)
           /\ last'.ret.total_videos = Cardinality(ArtifactFiles)
           /\ last'.ret.total_videos
                = Cardinality({id \in Ids : GetCall(dir, id, now).outcome # "miss"})
      ]_vars

(* get_stats has counted two entries *)
StatsReadOnlyWitness ==
    /\ last.op = "get_stats"
    /\ last.ret.total_videos = 2
    /\ Len(Metadata) = 2

-----------------------------------------------------------------------------
(* C14.  Set is an upsert.  EntriesOf(d, id) are the positions of the      *)
(* metadata index of d that hold an entry of id's key.                     *)

EntriesOf(d, id) ==
    {i \in 1..Len(LoadMetadata(d)) : LoadMetadata(d)[i].key = GetCacheKey(id)}

Upserted(d, id, data, t) ==
    /\ HasFile(d, id)
    /\ d[GetCachePath(id)] = JsonDump(data)
    /\ Cardinality(EntriesOf(d, id)) = 1
    /\ \A i \in EntriesOf(d, id) :
          /\ LoadMetadata(d)[i].timestamp = IsoFormat(t)
          /\ LoadMetadata(d)[i].size = ByteLen(JsonDump(data))

(* C14 as stated: when set(id, a) on an id that is cached has returned,    *)
(* the artifact file of id holds a, the index has exactly one entry for    *)
(* id's key, with the time of this set and the size of the file written,   *)
(* and the index has no more entries than before.                          *)

Upsert ==
    [][ (last'.op = "set" /\ HasEntry(dir, last'.id) /\ HasFile(dir, last'.id))
        => /\ Upserted(dir', last'.id, last'.data, now')
           /\ Len(LoadMetadata(dir')) <= Len(Metadata)
      ]_vars

(* C14 as amended: the same, unless the eviction run of this set removed   *)
(* the entry of id itself; then neither the file nor an entry of id is     *)
(* left.  In both cases the index has no more entries than before.         *)

UpsertUnlessEvicted ==
    [][ (last'.op = "set" /\ HasEntry(dir, last'.id) /\ HasFile(dir, last'.id))
        => /\ IF \E i \in 1..Len(last'.evicted) :
                    last'.evicted[i].video_id = last'.id
              THEN ~HasFile(dir', last'.id) /\ EntriesOf(dir', last'.id) = {}
              ELSE Upserted(dir', last'.id, last'.data, now')
           /\ Len(LoadMetadata(dir')) <= Len(Metadata)
      ]_vars

(* An id cached before another one has been set again, later, with an      *)
(* artifact of another size, and both are still cached                     *)
UpsertUnlessEvictedWitness ==
    /\ last.op = "set" /\ last.after_set /\ last.evicted = <<>>
    /\ Len(Metadata) = 2
    /\ Metadata[1].video_id = last.id
    /\ Metadata[1].timestamp = IsoFormat(now)
    /\ StrLess(Metadata[2].timestamp, Metadata[1].timestamp)

-----------------------------------------------------------------------------
(* C15.  Eviction is minimal: when a set has returned, with TotalBefore    *)
(* the total recorded size its eviction step found (the entries that       *)
(* remain plus the entries it removed): if TotalBefore was at most         *)
(* max_cache_size nothing was removed; and if entries were removed, the    *)
(* total was still above max_cache_size before each removal, the last one  *)
(* included.                                                               *)

TotalBefore == SumSizes(Metadata) + SumSizes(last.evicted)

MinimalEviction ==
    last.op = "set"
        => /\ TotalBefore <= max_cache_size => last.evicted = <<>>
           /\ \A n \in 1..Len(last.evicted) :
                 TotalBefore - SumSizes(SubSeq(last.evicted, 1, n - 1))
                     > max_cache_size

(* One entry was removed, which brought the total exactly to the budget,   *)
(* and the other entry stays                                               *)
MinimalEvictionWitness ==
    /\ last.op = "set"
    /\ Len(last.evicted) = 1
    /\ Len(Metadata) = 1
    /\ SumSizes(Metadata) = max_cache_size

-----------------------------------------------------------------------------
(* C16.  Missing file cleanup: when the index has an entry for id's key    *)
(* and the artifact file of id is missing, get(id) returns None and        *)
(* removes the entry, so that afterwards the index has no entry for that   *)
(* key and get_stats counts one entry less.                                *)

MissingFileCleanup ==
    [][ (last'.op = "get" /\ HasEntry(dir, last'.id) /\ ~HasFile(dir, last'.id))
        => /\ last'.ret = None
           /\ ~HasEntry(dir', last'.id)
           /\ GetStats(dir').total_videos = GetStats(dir).total_videos - 1
      ]_vars

-----------------------------------------------------------------------------
(* C17.  Unreadable metadata is recovered locally: when the metadata file  *)
(* is missing or does not parse, get, delete and get_stats do not raise    *)
(* and take the index to be empty (get finds no entry to expire, delete    *)
(* finds none to remove, get_stats counts none); and when the next set,    *)
(* delete or clear has completed, the index has an entry for a key if and  *)
(* only if the artifact file of that key exists.                           *)

MetadataRecovered ==
    [][ Unreadable(dir)
        => /\ last'.op \in {"get", "delete", "get_stats"} => last'.exc = NoExc
           /\ last'.op = "get" => last'.outcome # "expired"
           /\ last'.op = "get_stats" => last'.ret.total_videos = 0
           /\ last'.op \in {"set", "delete", "clear"} => LockStep'
      ]_vars

-----------------------------------------------------------------------------
(* C20.  No stale reads: whenever get(id) returns an artifact, the latest  *)
(* set of id happened at most max_age before the get, also when the index  *)
(* was reset to empty after the metadata file had become unreadable while  *)
(* artifact files stayed in the directory.                                 *)

NoStaleReads ==
    [][ (last'.op = "get" /\ last'.ret # None)
        => now' - written[GetCachePath(last'.id)] <= max_age
      ]_vars

-----------------------------------------------------------------------------
(* C18.  Write failure is propagated: when the write of the artifact file  *)
(* or the rewrite of the metadata document fails during set, set ends with *)
(* the exception; nothing is written again after the failure (after a      *)
(* failed artifact write the metadata file is as it was and the artifact   *)
(* file does not newly hold the artifact; after a failed metadata write    *)
(* the artifact file holds the artifact and the metadata file is as it was *)
(* or cut short); and the eviction step is not run: no entry is reported   *)
(* removed and the artifact files of the other ids stay as they were.      *)

WriteFailurePropagated ==
    [][ (last'.op = "set" /\ last'.outcome \in {"artifact", "metadata"})
        => LET path == GetCachePath(last'.id)
               content == JsonDump(last'.data)
               same_metadata ==
                   /\ Exists(dir', MetadataFile) = Exists(dir, MetadataFile)
                   /\ Exists(dir, MetadataFile)
                        => dir'[MetadataFile] = dir[MetadataFile]
           IN  /\ last'.exc = "OSError"
               /\ last'.evicted = <<>>
               /\ \A id \in Ids \ {last'.id} :
                     /\ HasFile(dir', id) = HasFile(dir, id)
                     /\ HasFile(dir, id)
                          => dir'[GetCachePath(id)] = dir[GetCachePath(id)]
               /\ last'.outcome = "artifact"
                     => /\ same_metadata
                        /\ (Exists(dir', path) /\ dir'[path] = content)
                             => (Exists(dir, path) /\ dir[path] = content)
               /\ last'.outcome = "metadata"
                     => /\ Exists(dir', path) /\ dir'[path] = content
                        /\ same_metadata \/ Unreadable(dir')
      ]_vars

(* The rewrite of the metadata document failed half way in a set while     *)
(* another id was cached: the index is unreadable and both files are there *)
WriteFailurePropagatedWitness ==
    /\ last.op = "set" /\ last.outcome = "metadata" /\ last.exc = "OSError"
    /\ Unreadable(dir)
    /\ Cardinality(ArtifactFiles) = 2

-----------------------------------------------------------------------------
(* C19.  Uncoordinated concurrent writers lose updates.  Whenever no call  *)
(* is under way and every set so far ran to completion before the next one *)
(* started, the index has an entry for a key if and only if the artifact   *)
(* file of that key exists; a directory in which an artifact file has no   *)
(* entry is reached only by sets that overlapped (LostUpdate, which the    *)
(* two callers do reach).                                                  *)

SerialSetsKeepLockStep ==
    (AllIdle /\ ~overlapped) => LockStep

(* Two sets of distinct ids have overlapped and both have returned without *)
(* raising and without evicting; the artifact files of both ids are there  *)
(* and the index, rewritten by the last writer, has lost the entry of the  *)
(* other id                                                                *)
LostUpdate ==
    /\ AllIdle /\ overlapped
    /\ last.op = "set" /\ last.exc = NoExc /\ last.evicted = <<>>
    /\ HasFile(dir, last.id) /\ HasEntry(dir, last.id)
    /\ \E id \in Ids \ {last.id} : HasFile(dir, id) /\ ~HasEntry(dir, id)
    /\ Len(Metadata) = 1

-----------------------------------------------------------------------------
(* C21.  Per-id isolation: a get or a delete of one id leaves the artifact *)
(* file and the metadata entry of every other id as they were (neither     *)
(* added, removed nor modified); and whenever an entry of an id leaves the *)
(* index, the call was delete of that id, get of that id that found it     *)
(* expired or unparseable, clear, or a set whose eviction run removed it.  *)

PerIdIsolation ==
    [][ /\ last'.op \in {"get", "delete"}
           => \A id \in Ids \ {last'.id} :
                 /\ HasFile(dir', id) = HasFile(dir, id)
                 /\ HasFile(dir, id)
                      => dir'[GetCachePath(id)] = dir[GetCachePath(id)]
                 /\ HasEntry(dir', id) = HasEntry(dir, id)
                 /\ HasEntry(dir, id)
                      => DictGet(LoadMetadata(dir'), GetCacheKey(id))
                           = DictGet(Metadata, GetCacheKey(id))
        /\ \A id \in Ids :
              (HasEntry(dir, id) /\ ~HasEntry(dir', id))
              => \/ last'.op = "delete" /\ last'.id = id
                 \/ /\ last'.op = "get" /\ last'.id = id
                    /\ last'.outcome \in {"expired", "error"}
                 \/ last'.op = "clear"
                 \/ /\ last'.op = "set"
                    /\ \E i \in 1..Len(last'.evicted) :
                          last'.evicted[i].video_id = id
      ]_vars

(* A delete has removed the file and the entry of its id, and the entry    *)
(* and the file of the other id are still there                            *)
PerIdIsolationWitness ==
    /\ last.op = "delete" /\ last.outcome = "removed"
    /\ ~HasFile(dir, last.id) /\ ~HasEntry(dir, last.id)
    /\ Len(Metadata) = 1
    /\ Metadata[1].video_id # last.id
    /\ HasFile(dir, Metadata[1].video_id)

=============================================================================
